---- MODULE Spec2Model ----
(***************************************************************************)
(* Verification model of the draft-recommendation engine                   *)
(* (packages/core/src/ranking.ts) and of the AI tie-breaker adapters       *)
(* (packages/clients/src/openai.ts and the Anthropic adapter).             *)
(* It also covers the draft board (web/components/DraftBoard), the Home    *)
(* page with its league selector, and the Sleeper API client.              *)
(*                                                                         *)
(* Numbers.  The engine computes with IEEE doubles.  The model computes    *)
(* exactly, in fixed point: every sub-score is an integer number of        *)
(* 1/SubScale units, every weight an integer number of 1/WScale units, so  *)
(* a score (and an edge_vs_next) is an integer number of                   *)
(* 1/(SubScale*WScale) units.  Inputs are drawn so that every quotient     *)
(* the code forms (20/tier) is exact in these units.                       *)
(*                                                                         *)
(* Optional fields.  A JavaScript object that lacks a field is a record    *)
(* whose DOMAIN lacks the field.                                           *)
(***************************************************************************)
EXTENDS Integers, Sequences, FiniteSets, TLC

VARIABLES
    context,          \* RankingContext handed to rankCandidates / getRecommendations
    rpc,              \* position of the rankCandidates caller: "ready" | "returned" | "threw"
    recs,             \* list returned by rankCandidates
    client,           \* which adapter class is invoked: "openai" | "anthropic"
    deterministicTop, \* second argument of getRecommendations
    pc,               \* position of getRecommendations: "called" | "ai-pending" | "ai-resolved" | "rejected"
    request,          \* candidates carried by the request issued to the backend
    nRequests,        \* number of calls of the SDK's create() made by this invocation
    response,         \* what the backend call settled with (NoResponse while it has not)
    returned,         \* value the promise of getRecommendations resolved with
    path,             \* return statement taken: "none" | "ai" | "fallback"
    tables,           \* module-level objects of ranking.ts (weights, baselines, priorities)
    calls,            \* number of rankCandidates calls made since the module was loaded
    firstRecs,        \* list returned by the first rankCandidates call on `context`
    boardPicks,       \* DraftBoard state `picks`
    boardPlayers,     \* DraftBoard state `players`
    remainingPlayers, \* DraftBoard: `remainingPlayers` of the last render
    boardError,       \* DraftBoard state `error` ("null" when null)
    boardStrategy,    \* DraftBoard state `strategy`
    isLoading,        \* DraftBoard state `isLoading`
    recommendations,  \* DraftBoard state `recommendations`: the number of the request whose
                      \* data.ranked it holds (0 for the initial [])
    llmEnabled,       \* DraftBoard state `llmEnabled`
    issued,           \* number of /api/recommend requests issued so far
    inFlight,         \* numbers of the /api/recommend requests not yet settled
    cacheTtl,         \* SleeperClient.cacheTtl, in ms
    cache,            \* SleeperClient.cache: key -> [data, timestamp]
    now,              \* Date.now(), in ms
    served,           \* the last SleeperClient get call: key, outcome, data, age of the entry read
    nAdvances,        \* number of clock advances so far
    nGets,            \* number of SleeperClient get calls so far
    selectedLeague,   \* Home state `selectedLeague` (a league_id, "null" when null)
    selectedDraft,    \* Home state `selectedDraft` (a Draft, NoDraft when null)
    expandedLeague,   \* LeagueSelector state `expandedLeague` ("null" when null)
    drafts,           \* LeagueSelector state `drafts`: league_id -> Draft[]
    loadingDrafts,    \* LeagueSelector state `loadingDrafts` ("null" when null)
    draftFetches      \* league_ids of the /api/drafts fetches in flight

vars == <<context, rpc, recs, client, deterministicTop, pc, request,
          nRequests, response, returned, path, tables, calls, firstRecs,
          boardPicks, boardPlayers, remainingPlayers, boardError,
          boardStrategy, isLoading, recommendations, llmEnabled, issued, inFlight,
          cacheTtl, cache, now, served, nAdvances, nGets,
          selectedLeague, selectedDraft, expandedLeague, drafts, loadingDrafts,
          draftFetches>>

adapterVars == <<client, deterministicTop, pc, request, nRequests, response,
                 returned, path>>
boardVars == <<boardPicks, boardPlayers, remainingPlayers, boardError,
               boardStrategy, isLoading, recommendations, llmEnabled, issued, inFlight>>
sleeperVars == <<cacheTtl, cache, now, served, nAdvances, nGets>>
homeVars == <<selectedLeague, selectedDraft, expandedLeague, drafts, loadingDrafts,
              draftFetches>>

----------------------------------------------------------------------------
(* Bounds of the model *)

MaxPool == 13        \* largest remaining pool handed to rankCandidates
MaxStart == 3        \* the pool is a window of the catalog starting at 1..MaxStart
MaxPicks == 4        \* longest pick log
MaxRespLen == 3      \* longest `ranked` array a backend answers with
MaxCalls == 3        \* rankCandidates calls made in one behaviour
MaxBoardPicks == 4   \* longest pick log a poll of the draft board returns
MaxSupply == 40      \* most players of one position in a ranked supply pool
MaxAdvances == 2     \* clock advances in one behaviour of the Sleeper client
MaxGets == 4         \* get calls in one behaviour of the Sleeper client
MaxRequests == 3     \* /api/recommend requests the draft board issues in one behaviour
MaxBoardPlayers == 4 \* largest player catalog the draft board loads

(* Fixed-point units *)
SubScale == 60
WScale == 100

----------------------------------------------------------------------------
(* Generic helpers *)

Min(a, b) == IF a < b THEN a ELSE b
Max(a, b) == IF a > b THEN a ELSE b

Has(r, f) == f \in DOMAIN r

\* Array.prototype.slice(0, n)
Slice(s, n) == SubSeq(s, 1, Min(Len(s), n))

RECURSIVE SumSeq(_)
SumSeq(s) == IF s = <<>> THEN 0 ELSE Head(s) + SumSeq(Tail(s))

SeqRange(s) == {s[i] : i \in 1..Len(s)}

----------------------------------------------------------------------------
(* packages/core/src/ranking.ts: configuration tables *)

Strategies == {"safe", "balanced", "upside"}

\* The module-level objects as the module's source text initialises them:
\* weights in 1/WScale units, baselines in points, priorities and scarcity
\* tiers in tenths.
ModuleTables ==
    [STRATEGY_WEIGHTS |->
        [safe     |-> [w1 |-> 110, w2 |-> 30, w3 |-> 60, w4 |-> 25, w5 |-> 8, w6 |-> 18, w7 |-> 5],
         balanced |-> [w1 |-> 100, w2 |-> 35, w3 |-> 50, w4 |-> 30, w5 |-> 5, w6 |-> 15, w7 |-> 10],
         upside   |-> [w1 |-> 100, w2 |-> 35, w3 |-> 40, w4 |-> 35, w5 |-> 3, w6 |-> 10, w7 |-> 25]],
     REPLACEMENT_BASELINES |->
        ("QB" :> 200 @@ "RB" :> 150 @@ "WR" :> 140 @@ "TE" :> 100 @@ "K" :> 120 @@ "DEF" :> 100),
     POSITION_SCARCITY |->
        ("RB" :> 8 @@ "TE" :> 6 @@ "WR" :> 4 @@ "QB" :> 3 @@ "K" :> 1 @@ "DEF" :> 2),
     ROSTER_NEED_PRIORITY |->
        ("QB" :> 8 @@ "RB" :> 10 @@ "WR" :> 10 @@ "TE" :> 7 @@ "K" :> 3 @@ "DEF" :> 4)]

\* variant of STRATEGY_WEIGHTS: the safe and upside vectors are exchanged
STRATEGY_WEIGHTS_SafeUpsideSwapped ==
    [safe |-> tables.STRATEGY_WEIGHTS.upside,
     balanced |-> tables.STRATEGY_WEIGHTS.balanced,
     upside |-> tables.STRATEGY_WEIGHTS.safe]

\* STRATEGY_WEIGHTS as the module currently holds it
STRATEGY_WEIGHTS == tables.STRATEGY_WEIGHTS

\* REPLACEMENT_BASELINES[pos] || 100, in points
REPLACEMENT_BASELINES(pos) ==
    IF pos \in DOMAIN tables.REPLACEMENT_BASELINES /\ tables.REPLACEMENT_BASELINES[pos] # 0
    THEN tables.REPLACEMENT_BASELINES[pos]
    ELSE 100

\* ROSTER_NEED_PRIORITY[pos] || 0.5, in tenths
ROSTER_NEED_PRIORITY(pos) ==
    IF pos \in DOMAIN tables.ROSTER_NEED_PRIORITY /\ tables.ROSTER_NEED_PRIORITY[pos] # 0
    THEN tables.ROSTER_NEED_PRIORITY[pos]
    ELSE 5

----------------------------------------------------------------------------
(* packages/core/src/ranking.ts: sub-scores, each in 1/SubScale units *)

\* variant of calculateVORP: one replacement level for every position
calculateVORP_FlatReplacement(player) ==
    LET baseline == IF Has(player, "projection_baseline") THEN player.projection_baseline ELSE 0
    IN  Max(0, baseline - 100) * SubScale

calculateVORP(player) ==
    LET baseline == IF Has(player, "projection_baseline") THEN player.projection_baseline ELSE 0
        replacement == REPLACEMENT_BASELINES(player.pos)
    IN  Max(0, baseline - replacement) * SubScale

calculateADPDiscount(player, pickNo) ==
    IF ~Has(player, "adp") THEN 0
    ELSE Max(0, player.adp - pickNo) * SubScale

\* picks.filter(p => p.roster_id === teamId)
TeamPicks(picks, teamId) == SelectSeq(picks, LAMBDA p : p.roster_id = teamId)

\* number of occurrences of pos in the roster template
Required(rosterPositions, pos) ==
    Cardinality({i \in 1..Len(rosterPositions) : rosterPositions[i] = pos})

\* every pick of the team is counted under the placeholder position 'RB'
calculateTeamNeeds(picks, rosterPositions, teamId) ==
    LET teamPicks == TeamPicks(picks, teamId)
        currentCounts(pos) == IF pos = "RB" THEN Len(teamPicks) ELSE 0
        startable == {pos \in SeqRange(rosterPositions) : pos # "BN" /\ pos # "IR"}
    IN  [pos \in startable |->
            Max(0, Required(rosterPositions, pos) - currentCounts(pos))]

calculateNeedBoost(player, teamNeeds) ==
    LET need == IF player.pos \in DOMAIN teamNeeds THEN teamNeeds[player.pos] ELSE 0
        priority == ROSTER_NEED_PRIORITY(player.pos)
    IN  need * priority * (SubScale \div 10)

\* tiers of the pool's players of one position that have a (non-zero) tier
TiersOf(remaining, pos) ==
    LET tiered == SelectSeq(remaining,
                      LAMBDA p : p.pos = pos /\ Has(p, "tier") /\ p.tier # 0)
    IN  [i \in 1..Len(tiered) |-> tiered[i].tier]

CountOf(remaining, pos) ==
    Cardinality({i \in 1..Len(remaining) : remaining[i].pos = pos})

\* variant of calculatePositionalScarcity: 1/count + 1/avgTier, without the
\* factors 100 and 10
calculatePositionalScarcity_Unscaled(remaining) ==
    [pos \in {remaining[i].pos : i \in 1..Len(remaining)} |->
        LET count == CountOf(remaining, pos)
            tiers == TiersOf(remaining, pos)
            sum   == SumSeq(tiers)
            num   == IF Len(tiers) > 0 THEN sum + Len(tiers) * count ELSE 10 + count
            den   == IF Len(tiers) > 0 THEN count * sum ELSE 10 * count
        IN  IF num >= den THEN SubScale
            ELSE IF 10 * num <= den THEN SubScale \div 10
            ELSE (SubScale * num) \div den]

\* scarcity[pos] = max(0.1, min(1.0, 100/count + 10/avgTier)), in 1/SubScale units.
\* 100/count + 10/avgTier is the fraction num/den below.
calculatePositionalScarcity(remaining) ==
    [pos \in {remaining[i].pos : i \in 1..Len(remaining)} |->
        LET count == CountOf(remaining, pos)
            tiers == TiersOf(remaining, pos)
            sum   == SumSeq(tiers)
            num   == IF Len(tiers) > 0 THEN 100 * sum + 10 * Len(tiers) * count
                                       ELSE 100 + count
            den   == IF Len(tiers) > 0 THEN count * sum ELSE count
        IN  IF num >= den THEN SubScale
            ELSE IF 10 * num <= den THEN SubScale \div 10
            ELSE (SubScale * num) \div den]

calculateScarcityBoost(player, scarcityMap) ==
    LET scarcity == IF player.pos \in DOMAIN scarcityMap THEN scarcityMap[player.pos]
                    ELSE SubScale \div 2
    IN  scarcity * 50

\* the count is the number of picks of the team, whatever their bye weeks
calculateByePenalty(player, picks, teamOnClock) ==
    IF ~Has(player, "bye_week") \/ player.bye_week = 0 THEN 0
    ELSE LET sameByeCount == Len(TeamPicks(picks, teamOnClock))
         IN  IF sameByeCount >= 3 THEN 20 * SubScale
             ELSE IF sameByeCount >= 2 THEN 10 * SubScale
             ELSE 0

\* variant of calculateInjuryPenalty: out is penalised like doubtful
calculateInjuryPenalty_OutAsDoubtful(player) ==
    LET status == IF Has(player, "injury_status") THEN player.injury_status ELSE "undefined"
    IN  CASE status = "out" -> 30 * SubScale
          [] status = "doubtful" -> 30 * SubScale
          [] status = "questionable" -> 15 * SubScale
          [] OTHER -> 0

calculateInjuryPenalty(player) ==
    LET status == IF Has(player, "injury_status") THEN player.injury_status ELSE "undefined"
    IN  CASE status = "out" -> 50 * SubScale
          [] status = "doubtful" -> 30 * SubScale
          [] status = "questionable" -> 15 * SubScale
          [] OTHER -> 0

calculateUpsideBonus(player) ==
    IF ~Has(player, "tier") \/ player.tier = 0 THEN 0
    ELSE (20 * SubScale) \div player.tier

\* reasons.slice(0, 2).join(', ')
generateReason(vorp, adpDiscount, needBoost, scarcityBoost) ==
    LET r1 == IF vorp > 50 * SubScale THEN <<"High VORP">> ELSE <<>>
        r2 == IF adpDiscount > 20 * SubScale THEN <<"ADP value">> ELSE <<>>
        r3 == IF 2 * needBoost > SubScale THEN <<"Roster need">> ELSE <<>>
        r4 == IF scarcityBoost > 25 * SubScale THEN <<"Position scarce">> ELSE <<>>
        all == r1 \o r2 \o r3 \o r4
        reasons == IF all = <<>> THEN <<"Solid pick">> ELSE all
    IN  IF Len(reasons) = 1 THEN reasons[1]
        ELSE reasons[1] \o ", " \o reasons[2]

\* variant of determineFit: the upside test is made before the need test
determineFit_UpsideFirst(needBoost, upsideBonus, strategy) ==
    IF upsideBonus > 15 * SubScale THEN "upside"
    ELSE IF 10 * needBoost > 8 * SubScale THEN "need"
    ELSE IF strategy = "safe" THEN "safe"
    ELSE "value"

determineFit(needBoost, upsideBonus, strategy) ==
    IF 10 * needBoost > 8 * SubScale THEN "need"
    ELSE IF upsideBonus > 15 * SubScale THEN "upside"
    ELSE IF strategy = "safe" THEN "safe"
    ELSE "value"

----------------------------------------------------------------------------
(* packages/core/src/ranking.ts: rankCandidates *)

\* variant of ScoreOne: the entry is identified by the player's name
ScoreOne_IdFromName(player, ctx, weights, teamNeeds, scarcityMap) ==
    LET vorp == calculateVORP(player)
        adpDiscount == calculateADPDiscount(player, ctx.pick_no)
        needBoost == calculateNeedBoost(player, teamNeeds)
        scarcityBoost == calculateScarcityBoost(player, scarcityMap)
        byePenalty == calculateByePenalty(player, ctx.picks, ctx.team_on_clock)
        injuryPenalty == calculateInjuryPenalty(player)
        upsideBonus == calculateUpsideBonus(player)
        score == vorp * weights.w1 + adpDiscount * weights.w2
                 + needBoost * weights.w3 + scarcityBoost * weights.w4
                 - byePenalty * weights.w5 - injuryPenalty * weights.w6
                 + upsideBonus * weights.w7
    IN  [player_id |-> player.full_name,
         reason |-> generateReason(vorp, adpDiscount, needBoost, scarcityBoost),
         fit |-> determineFit(needBoost, upsideBonus, ctx.strategy),
         edge_vs_next |-> 0,
         score |-> score,
         vorp |-> vorp,
         adp_discount |-> adpDiscount,
         need_boost |-> needBoost,
         scarcity_boost |-> scarcityBoost,
         bye_penalty |-> byePenalty,
         injury_penalty |-> injuryPenalty,
         upside_bonus |-> upsideBonus]

\* variant of ScoreOne: the bye and injury penalties are added, not subtracted
ScoreOne_AddsPenalties(player, ctx, weights, teamNeeds, scarcityMap) ==
    LET vorp == calculateVORP(player)
        adpDiscount == calculateADPDiscount(player, ctx.pick_no)
        needBoost == calculateNeedBoost(player, teamNeeds)
        scarcityBoost == calculateScarcityBoost(player, scarcityMap)
        byePenalty == calculateByePenalty(player, ctx.picks, ctx.team_on_clock)
        injuryPenalty == calculateInjuryPenalty(player)
        upsideBonus == calculateUpsideBonus(player)
        score == vorp * weights.w1 + adpDiscount * weights.w2
                 + needBoost * weights.w3 + scarcityBoost * weights.w4
                 + byePenalty * weights.w5 + injuryPenalty * weights.w6
                 + upsideBonus * weights.w7
    IN  [player_id |-> player.player_id,
         reason |-> generateReason(vorp, adpDiscount, needBoost, scarcityBoost),
         fit |-> determineFit(needBoost, upsideBonus, ctx.strategy),
         edge_vs_next |-> 0,
         score |-> score,
         vorp |-> vorp,
         adp_discount |-> adpDiscount,
         need_boost |-> needBoost,
         scarcity_boost |-> scarcityBoost,
         bye_penalty |-> byePenalty,
         injury_penalty |-> injuryPenalty,
         upside_bonus |-> upsideBonus]

\* the callback of remaining.map: one scored Recommendation
ScoreOne(player, ctx, weights, teamNeeds, scarcityMap) ==
    LET vorp == calculateVORP(player)
        adpDiscount == calculateADPDiscount(player, ctx.pick_no)
        needBoost == calculateNeedBoost(player, teamNeeds)
        scarcityBoost == calculateScarcityBoost(player, scarcityMap)
        byePenalty == calculateByePenalty(player, ctx.picks, ctx.team_on_clock)
        injuryPenalty == calculateInjuryPenalty(player)
        upsideBonus == calculateUpsideBonus(player)
        score == vorp * weights.w1 + adpDiscount * weights.w2
                 + needBoost * weights.w3 + scarcityBoost * weights.w4
                 - byePenalty * weights.w5 - injuryPenalty * weights.w6
                 + upsideBonus * weights.w7
    IN  [player_id |-> player.player_id,
         reason |-> generateReason(vorp, adpDiscount, needBoost, scarcityBoost),
         fit |-> determineFit(needBoost, upsideBonus, ctx.strategy),
         edge_vs_next |-> 0,
         score |-> score,
         vorp |-> vorp,
         adp_discount |-> adpDiscount,
         need_boost |-> needBoost,
         scarcity_boost |-> scarcityBoost,
         bye_penalty |-> byePenalty,
         injury_penalty |-> injuryPenalty,
         upside_bonus |-> upsideBonus]

\* variant of InsertDesc: an entry is placed before the entries of equal score
RECURSIVE InsertDesc_Unstable(_, _)
InsertDesc_Unstable(sorted, x) ==
    IF sorted = <<>> THEN <<x>>
    ELSE IF Head(sorted).score > x.score
         THEN <<Head(sorted)>> \o InsertDesc_Unstable(Tail(sorted), x)
         ELSE <<x>> \o sorted

\* scored.sort((a, b) => b.score - a.score): a stable sort, score descending
RECURSIVE InsertDesc(_, _)
InsertDesc(sorted, x) ==
    IF sorted = <<>> THEN <<x>>
    ELSE IF Head(sorted).score >= x.score
         THEN <<Head(sorted)>> \o InsertDesc(Tail(sorted), x)
         ELSE <<x>> \o sorted

RECURSIVE SortDesc(_)
SortDesc(scored) ==
    IF scored = <<>> THEN <<>>
    ELSE InsertDesc(SortDesc(SubSeq(scored, 1, Len(scored) - 1)), scored[Len(scored)])

\* variant of WithEdges: the edge is the previous entry's score minus this one's
WithEdges_PreviousMinusThis(sorted) ==
    [i \in 1..Len(sorted) |->
        [sorted[i] EXCEPT !.edge_vs_next =
            IF i = 1 THEN 0 ELSE sorted[i - 1].score - sorted[i].score]]

\* sorted.forEach: edge_vs_next of each entry
WithEdges(sorted) ==
    [i \in 1..Len(sorted) |->
        [sorted[i] EXCEPT !.edge_vs_next =
            IF i = 1 THEN 0 ELSE sorted[i].score - sorted[i - 1].score]]

TOP_N == 12

\* variant of TopSlice: the sorted list is returned whole
TopSlice_All(sorted) == sorted

\* sorted.slice(0, 12)
TopSlice(sorted) == Slice(sorted, TOP_N)

\* the value rankCandidates returns; STRATEGY_WEIGHTS[strategy] is undefined for a
\* strategy outside the table, and reading weights.w1 in the map callback then
\* raises a TypeError (the callback runs only for a non-empty pool)
rankCandidates(ctx) ==
    LET defined == ctx.strategy \in DOMAIN STRATEGY_WEIGHTS
        weights == IF defined THEN STRATEGY_WEIGHTS[ctx.strategy] ELSE [w1 |-> 0]
        teamNeeds == calculateTeamNeeds(ctx.picks, ctx.roster_positions, ctx.team_on_clock)
        scarcityMap == calculatePositionalScarcity(ctx.remaining)
    IN  IF ~defined /\ ctx.remaining # <<>>
        THEN [threw |-> TRUE, list |-> <<>>]
        ELSE [threw |-> FALSE,
              list |-> TopSlice(WithEdges(SortDesc(
                  [i \in 1..Len(ctx.remaining) |->
                      ScoreOne(ctx.remaining[i], ctx, weights, teamNeeds, scarcityMap)])))]

----------------------------------------------------------------------------
(* Inputs: a player catalog, pick logs and roster templates to draw contexts from *)

Opt(present, field, value) == IF present THEN (field :> value) ELSE [z \in {} |-> 0]

CatalogPositions == <<"RB", "WR", "QB", "TE", "WR", "RB", "K", "DEF", "LB">>
CatalogInjuries == <<"healthy", "questionable", "doubtful", "out">>

\* the i-th player of the catalog; optional fields are absent for some players
PlayerOf(i) ==
    [player_id |-> "p" \o ToString(i),
     full_name |-> "Player " \o ToString(i),
     pos |-> CatalogPositions[((i - 1) % Len(CatalogPositions)) + 1]]
    @@ Opt(i % 5 # 0, "projection_baseline", 100 + ((i * 37) % 120))
    @@ Opt(i % 3 # 0, "adp", ((i * 11) % 45) + 1)
    @@ Opt(i % 4 # 0, "tier", (i % 6) + 1)
    @@ Opt(i % 2 = 1, "bye_week", 5 + (i % 3))
    @@ Opt(i % 5 # 4, "injury_status", CatalogInjuries[(i % 4) + 1])

\* a pool: the players start..start+len-1 of the catalog, in catalog order
PoolOf(start, len) == [k \in 1..len |-> PlayerOf(start + k - 1)]

\* the first m picks of a draft; the drafted players are not catalog players
PickLog(m) ==
    [k \in 1..m |->
        [pick_no |-> k,
         roster_id |-> IF k % 3 = 0 THEN 2 ELSE 1,
         player_id |-> "d" \o ToString(k)]]

\* the catalog record of the player a pick drafted: the position and the bye
\* week the placeholders of calculateTeamNeeds and calculateByePenalty stand for
DraftedPositions == <<"WR", "QB", "TE", "RB">>
DraftedPlayerOf(pick) ==
    [player_id |-> pick.player_id,
     full_name |-> "Drafted " \o ToString(pick.pick_no),
     pos |-> DraftedPositions[((pick.pick_no - 1) % Len(DraftedPositions)) + 1],
     bye_week |-> 5 + (pick.pick_no % 3)]

Templates ==
    {<<"QB", "RB", "RB", "WR", "WR", "TE", "FLEX", "K", "DEF", "BN", "BN", "IR">>,
     <<"QB", "RB", "WR", "BN">>}

PickNos == {1, 10}
Teams == {1, 2}

ContextOf(start, len, m, template, pickNo, strategy, team) ==
    [remaining |-> PoolOf(start, len),
     picks |-> PickLog(m),
     roster_positions |-> template,
     pick_no |-> pickNo,
     strategy |-> strategy,
     team_on_clock |-> team]

\* contexts of the ranking specification
RankContexts ==
    {ContextOf(start, len, m, template, pickNo, strategy, team) :
        start \in 1..MaxStart, len \in 0..MaxPool, m \in 0..MaxPicks,
        template \in Templates, pickNo \in PickNos,
        strategy \in Strategies, team \in Teams}

\* a pool holding a candidate that is out and, last, the same candidate healthy
\* (the player_id apart), with len other catalog players between them
InjuryPairPool(i, len) ==
    <<[injury_status |-> "out", player_id |-> "o" \o ToString(i)] @@ PlayerOf(i)>>
    \o PoolOf(1, len)
    \o <<[injury_status |-> "healthy", player_id |-> "h" \o ToString(i)] @@ PlayerOf(i)>>

InjuryPairContexts ==
    {[ContextOf(1, 0, m, template, pickNo, strategy, team)
         EXCEPT !.remaining = InjuryPairPool(i, len)] :
        i \in 1..Len(CatalogPositions), len \in 0..2, m \in {0, MaxPicks},
        template \in Templates, pickNo \in PickNos,
        strategy \in Strategies, team \in Teams}

\* three RB candidates with projection baselines 200, 180, 150 and ADP 5, 50, 100
\* that share every other field; listed best first or best last
ThreeBacks(shared, bestFirst) ==
    LET back(proj, adp) ==
            [player_id |-> "rb" \o ToString(proj),
             full_name |-> "Back " \o ToString(proj),
             pos |-> "RB", projection_baseline |-> proj, adp |-> adp] @@ shared
    IN  IF bestFirst THEN <<back(200, 5), back(180, 50), back(150, 100)>>
        ELSE <<back(150, 100), back(180, 50), back(200, 5)>>

SharedFields ==
    {Opt(tier # 0, "tier", tier) @@ Opt(bye # 0, "bye_week", bye)
        @@ Opt(injury # "absent", "injury_status", injury) :
        tier \in {0, 1, 4}, bye \in {0, 7},
        injury \in {"absent", "healthy", "questionable", "out"}}

ThreeBackContexts ==
    {[ContextOf(1, 0, m, template, 10, "balanced", team)
         EXCEPT !.remaining = ThreeBacks(shared, bestFirst)] :
        shared \in SharedFields, bestFirst \in BOOLEAN, m \in 0..MaxPicks,
        template \in Templates, team \in Teams}

\* two candidates without projection that share ADP and differ in position (so
\* in need boost) and in tier (so in upside bonus), ranked under safe
UpsideNeedPool(posA, tierA, posB, tierB, shared) ==
    <<[player_id |-> "a", full_name |-> "Candidate A", pos |-> posA, tier |-> tierA] @@ shared,
      [player_id |-> "b", full_name |-> "Candidate B", pos |-> posB, tier |-> tierB] @@ shared>>

UpsideNeedContexts ==
    {[ContextOf(1, 0, m, template, 10, "safe", team)
         EXCEPT !.remaining = UpsideNeedPool(posA, tierA, posB, tierB, Opt(adp # 0, "adp", adp))] :
        posA \in {"RB", "WR", "QB", "K"}, posB \in {"RB", "WR", "QB", "K"},
        tierA \in {1, 3, 6}, tierB \in {1, 3, 6}, adp \in {0, 30},
        m \in 0..MaxPicks, template \in Templates, team \in Teams}

\* a pool of n players of one position, tiered by tierMode, and one kicker
SupplyPool(pos, n, tierMode) ==
    [k \in 1..n |->
        [player_id |-> "s" \o ToString(k),
         full_name |-> "Supply " \o ToString(k),
         pos |-> pos,
         projection_baseline |-> 100 + ((k * 37) % 120)]
        @@ Opt(tierMode = "best", "tier", 1)
        @@ Opt(tierMode = "worst", "tier", 6)
        @@ Opt(tierMode = "mixed" /\ k % 4 # 0, "tier", (k % 6) + 1)]
    \o <<[player_id |-> "k1", full_name |-> "Kicker 1", pos |-> "K", tier |-> 6]>>

SupplyCounts == {1, 2, 3, MaxSupply \div 2, MaxSupply - 1, MaxSupply}

TierModes == {"none", "best", "worst", "mixed"}

SupplyContexts ==
    {[ContextOf(1, 0, m, <<"QB", "RB", "WR", "BN">>, 10, strategy, 1)
         EXCEPT !.remaining = SupplyPool(pos, n, tierMode)] :
        pos \in {"RB", "QB", "LB"}, n \in SupplyCounts,
        tierMode \in TierModes,
        m \in {0, 2}, strategy \in Strategies}

\* contexts of the pipeline specification (ranking followed by the AI adapter)
PipelineContexts ==
    {ContextOf(1, len, 1, <<"QB", "RB", "WR", "BN">>, 10, strategy, 1) :
        len \in 0..MaxPool, strategy \in Strategies}

----------------------------------------------------------------------------
(* The rankCandidates call *)

NoResponse == [kind |-> "none"]

AdapterIdle ==
    /\ client = "none"
    /\ deterministicTop = <<>>
    /\ pc = "idle"
    /\ request = <<>>
    /\ nRequests = 0
    /\ response = NoResponse
    /\ returned = <<>>
    /\ path = "none"

EngineInit ==
    /\ tables = ModuleTables
    /\ calls = 0
    /\ firstRecs = <<>>
    /\ rpc = "ready"
    /\ recs = <<>>

\* DraftBoard's useState initial values, before the first render's effects
BoardIdle ==
    /\ boardPicks = <<>>
    /\ boardPlayers = <<>>
    /\ remainingPlayers = <<>>
    /\ boardError = "null"
    /\ boardStrategy = "balanced"
    /\ isLoading = FALSE
    /\ recommendations = 0
    /\ llmEnabled = FALSE
    /\ issued = 0
    /\ inFlight = {}

\* a SleeperClient built with the default cacheTtlSeconds, before any call
NoServe == [key |-> "none", outcome |-> "none", age |-> -1]
SleeperIdle ==
    /\ cacheTtl = 3000 * 1000
    /\ cache = [k \in {} |-> 0]
    /\ now = 0
    /\ served = NoServe
    /\ nAdvances = 0
    /\ nGets = 0

\* Home and LeagueSelector: useState initial values
NoDraft == [draft_id |-> "null", league_id |-> "null"]
HomeIdle ==
    /\ selectedLeague = "null"
    /\ selectedDraft = NoDraft
    /\ expandedLeague = "null"
    /\ drafts = [l \in {} |-> <<>>]
    /\ loadingDrafts = "null"
    /\ draftFetches = {}

\* variant of ContextAfterCall: the sort is applied to context.remaining itself
ContextAfterCall_SortsRemaining(ctx) ==
    IF ctx.strategy \notin DOMAIN STRATEGY_WEIGHTS THEN ctx
    ELSE LET teamNeeds == calculateTeamNeeds(ctx.picks, ctx.roster_positions, ctx.team_on_clock)
             scarcityMap == calculatePositionalScarcity(ctx.remaining)
             sorted == SortDesc([i \in 1..Len(ctx.remaining) |->
                           ScoreOne(ctx.remaining[i], ctx, STRATEGY_WEIGHTS[ctx.strategy],
                                    teamNeeds, scarcityMap)])
         IN  [ctx EXCEPT !.remaining =
                 [i \in 1..Len(sorted) |->
                     CHOOSE pl \in SeqRange(ctx.remaining) : pl.player_id = sorted[i].player_id]]

\* The caller's context object after a call.  rankCandidates destructures the
\* context and only reads it: remaining.map, picks.filter and
\* rosterPositions.filter build new arrays, and sort, forEach and slice act on
\* the array that map built.
ContextAfterCall(ctx) == ctx

\* variant of TablesAfterCall: the selected weight vector is adjusted in place
TablesAfterCall_AdjustsWeights(t, ctx) ==
    IF ctx.strategy \notin DOMAIN t.STRATEGY_WEIGHTS THEN t
    ELSE [t EXCEPT !.STRATEGY_WEIGHTS[ctx.strategy].w3 = @ + 10]

\* The module-level objects after a call on ctx: they are read (weights =
\* STRATEGY_WEIGHTS[strategy], table lookups), never assigned, and every
\* accumulator (needs, currentCounts, positionCounts, positionTiers, scarcity,
\* reasons) is declared inside its function.
TablesAfterCall(t, ctx) == t

\* the first call on `context`
RankCall ==
    /\ rpc = "ready"
    /\ LET r == rankCandidates(context)
       IN  /\ rpc' = IF r.threw THEN "threw" ELSE "returned"
           /\ recs' = r.list
           /\ firstRecs' = r.list
    /\ context' = ContextAfterCall(context)
    /\ tables' = TablesAfterCall(tables, context)
    /\ calls' = calls + 1
    /\ UNCHANGED adapterVars
    /\ UNCHANGED boardVars
    /\ UNCHANGED sleeperVars
    /\ UNCHANGED homeVars

\* a call on some other context between two calls on `context`; its result is
\* not kept
RankOther(other) ==
    /\ rpc = "returned"
    /\ calls < MaxCalls
    /\ other # context
    /\ tables' = TablesAfterCall(tables, other)
    /\ calls' = calls + 1
    /\ UNCHANGED <<context, rpc, recs, firstRecs>>
    /\ UNCHANGED adapterVars
    /\ UNCHANGED boardVars
    /\ UNCHANGED sleeperVars
    /\ UNCHANGED homeVars

\* a further call with the same context value
RankAgain ==
    /\ rpc = "returned"
    /\ calls < MaxCalls
    /\ LET r == rankCandidates(context)
       IN  /\ rpc' = IF r.threw THEN "threw" ELSE "returned"
           /\ recs' = r.list
    /\ context' = ContextAfterCall(context)
    /\ tables' = TablesAfterCall(tables, context)
    /\ calls' = calls + 1
    /\ UNCHANGED firstRecs
    /\ UNCHANGED adapterVars
    /\ UNCHANGED boardVars
    /\ UNCHANGED sleeperVars
    /\ UNCHANGED homeVars

\* contexts of the calls made in between
OtherContexts ==
    {ContextOf(2, 3, 2, <<"QB", "RB", "WR", "BN">>, 1, strategy, 2) :
        strategy \in Strategies}

InitRank ==
    /\ context \in RankContexts
    /\ EngineInit
    /\ AdapterIdle
    /\ BoardIdle
    /\ SleeperIdle
    /\ HomeIdle

NextRank ==
    \/ RankCall
    \/ \E other \in OtherContexts : RankOther(other)
    \/ RankAgain

SpecRank == InitRank /\ [][NextRank]_vars

\* rankCandidates on a pool with an out/healthy pair
InitInjuryPair ==
    /\ context \in InjuryPairContexts
    /\ EngineInit
    /\ AdapterIdle
    /\ BoardIdle
    /\ SleeperIdle
    /\ HomeIdle

NextInjuryPair == RankCall

SpecInjuryPair == InitInjuryPair /\ [][NextInjuryPair]_vars

\* rankCandidates on the three-RB pool at pick 10 under balanced
InitThreeBacks ==
    /\ context \in ThreeBackContexts
    /\ EngineInit
    /\ AdapterIdle
    /\ BoardIdle
    /\ SleeperIdle
    /\ HomeIdle

NextThreeBacks == RankCall

SpecThreeBacks == InitThreeBacks /\ [][NextThreeBacks]_vars

\* rankCandidates under safe on two candidates differing in need and upside
InitUpsideNeed ==
    /\ context \in UpsideNeedContexts
    /\ EngineInit
    /\ AdapterIdle
    /\ BoardIdle
    /\ SleeperIdle
    /\ HomeIdle

NextUpsideNeed == RankCall

SpecUpsideNeed == InitUpsideNeed /\ [][NextUpsideNeed]_vars

\* rankCandidates on pools with 1 to MaxSupply players of one position
InitSupply ==
    /\ context \in SupplyContexts
    /\ EngineInit
    /\ AdapterIdle
    /\ BoardIdle
    /\ SleeperIdle
    /\ HomeIdle

NextSupply == RankCall

SpecSupply == InitSupply /\ [][NextSupply]_vars

\* contexts whose strategy is outside the Strategy union of types.ts
InvalidContexts == {[c EXCEPT !.strategy = "aggressive"] : c \in RankContexts}

InitRankInvalid ==
    /\ context \in InvalidContexts
    /\ EngineInit
    /\ AdapterIdle
    /\ BoardIdle
    /\ SleeperIdle
    /\ HomeIdle

NextRankInvalid == RankCall

SpecRankInvalid == InitRankInvalid /\ [][NextRankInvalid]_vars

----------------------------------------------------------------------------
(* packages/clients/src/openai.ts and the Anthropic adapter: getRecommendations *)

Clients == {"openai", "anthropic"}

MAX_CANDIDATES == 8
MAX_REASON == 140
FitLabels == {"value", "need", "stack", "upside", "safe"}

\* context.remaining.find(p => p.player_id === rec.player_id); <<>> when not found
FindPlayer(remaining, id) ==
    LET hits == SelectSeq(remaining, LAMBDA p : p.player_id = id)
    IN  IF hits = <<>> THEN [z \in {} |-> 0] ELSE hits[1]

\* The candidates of the request.
\* OpenAI adapter: the map callback destructures `player` from each
\* Recommendation and reads player.player_id; a Recommendation has no `player`
\* field, so the callback raises a TypeError for the first entry.
\* Anthropic adapter: the player's fields are looked up in context.remaining.
\* Both map the whole of deterministicTop.
BuildCandidates(c, ctx, det) ==
    IF c = "openai"
    THEN IF \E i \in 1..Len(det) : ~Has(det[i], "player")
         THEN [threw |-> TRUE, list |-> <<>>]
         ELSE [threw |-> FALSE,
               list |-> [i \in 1..Len(det) |->
                   [player_id |-> det[i].player.player_id,
                    vorp |-> det[i].vorp, score |-> det[i].score,
                    adp_discount |-> det[i].adp_discount,
                    need_boost |-> det[i].need_boost,
                    scarcity_boost |-> det[i].scarcity_boost]]]
    ELSE [threw |-> FALSE,
          list |-> [i \in 1..Len(det) |->
              LET player == FindPlayer(ctx.remaining, det[i].player_id)
              IN  [player_id |-> det[i].player_id,
                   vorp |-> det[i].vorp, score |-> det[i].score,
                   adp_discount |-> det[i].adp_discount,
                   need_boost |-> det[i].need_boost,
                   scarcity_boost |-> det[i].scarcity_boost]
                  @@ Opt(Has(player, "pos"), "pos", IF Has(player, "pos") THEN player.pos ELSE "")
                  @@ Opt(Has(player, "tier"), "tier", IF Has(player, "tier") THEN player.tier ELSE 0)
                  @@ Opt(Has(player, "adp"), "adp", IF Has(player, "adp") THEN player.adp ELSE 0)]]

\* variant of FallbackList: the first entry keeps its own edge_vs_next
FallbackList_KeepsFirstEdge(det) ==
    [i \in 1..Min(Len(det), MAX_CANDIDATES) |->
        [player_id |-> det[i].player_id,
         reason |-> det[i].reason,
         fit |-> det[i].fit,
         edge_vs_next |-> det[i].edge_vs_next]]

\* the catch block's value: deterministicTop.slice(0, 8).map(...)
FallbackList(det) ==
    [i \in 1..Min(Len(det), MAX_CANDIDATES) |->
        [player_id |-> det[i].player_id,
         reason |-> det[i].reason,
         fit |-> det[i].fit,
         edge_vs_next |-> IF i = 1 THEN 0 ELSE det[i].edge_vs_next]]

\* variant of CatchBlock: the error is logged and thrown again
CatchBlock_Rethrows(det) ==
    [settled |-> "rejected", value |-> <<>>, via |-> "none"]

\* the catch block: the error is logged and the promise resolves with the fallback
CatchBlock(det) ==
    [settled |-> "ai-resolved", value |-> FallbackList(det), via |-> "fallback"]

\* lines after the await, inside try: what is thrown or returned for a response
\*   error      the SDK call rejected (network error, HTTP error)
\*   no_tool    no tool call / no tool_use block in the response
\*   bad_json   the tool call's arguments do not parse (OpenAI adapter: JSON.parse)
\*   null       the parsed value is null: reading parsed.ranked raises a TypeError
\*   no_ranked  no `ranked` member;  not_array  `ranked` is not an array
\*   ranked     `ranked` is an array: returned, cut to expectedCount entries
AfterAwait(resp, det) ==
    IF resp.kind = "ranked"
    THEN LET expectedCount == Min(Len(det), MAX_CANDIDATES)
         IN  [threw |-> FALSE, value |-> Slice(resp.ranked, expectedCount)]
    ELSE [threw |-> TRUE, value |-> <<>>]

\* the settled promise of getRecommendations, given the outcome of the try block
Settle(try, det) ==
    IF try.threw THEN CatchBlock(det)
    ELSE [settled |-> "ai-resolved", value |-> try.value, via |-> "ai"]

----------------------------------------------------------------------------
(* What a backend can answer *)

\* a reason of 141 characters, one more than the schema's maxLength
LongReason ==
    "xxxxxxxxxxxxxxxxxxxxxxxxxxxxxxxxxxxxxxxxxxxxxxxxxxxxxxxxxxxxxxxxxxxxxxxxxxxxxxxxxxxxxxxxxxxxxxxxxxxxxxxxxxxxxxxxxxxxxxxxxxxxxxxxxxxxxxxxxxxxx"

\* entries a backend may put into `ranked`, for the candidates it was sent
ResponseEntries(det) ==
    LET fb == FallbackList(det)
        echo == {fb[i] : i \in 1..Min(Len(fb), 2)}
        own == IF det = <<>> THEN "p0" ELSE det[1].player_id
    IN  echo \cup
        {[player_id |-> own, reason |-> "Best value on the board", fit |-> "stack",
          edge_vs_next |-> 90000],
         [player_id |-> "ghost", reason |-> "Sleeper pick", fit |-> "upside",
          edge_vs_next |-> 0],
         [player_id |-> own],
         [player_id |-> own, reason |-> LongReason, fit |-> "value", edge_vs_next |-> 0],
         [player_id |-> own, reason |-> "Trust me", fit |-> "must-have",
          edge_vs_next |-> 0]}

RECURSIVE SeqsUpTo(_, _)
SeqsUpTo(S, n) ==
    IF n = 0 THEN {<<>>}
    ELSE LET shorter == SeqsUpTo(S, n - 1)
         IN  shorter \cup {Append(q, e) : q \in {r \in shorter : Len(r) = n - 1}, e \in S}

BackendResponses(c, det) ==
    {[kind |-> k] : k \in {"error", "no_tool", "null", "no_ranked", "not_array"}
                          \cup (IF c = "openai" THEN {"bad_json"} ELSE {})}
    \cup {[kind |-> "ranked", ranked |-> r] : r \in SeqsUpTo(ResponseEntries(det), MaxRespLen)}

----------------------------------------------------------------------------
(* The pipeline: rankCandidates, then one invocation of getRecommendations *)

\* the caller invokes client c with a ranking: recs, or recs without its top entry
Invoke(c, from) ==
    /\ rpc = "returned"
    /\ pc = "idle"
    /\ client' = c
    /\ deterministicTop' = SubSeq(recs, from, Len(recs))
    /\ pc' = "called"
    /\ UNCHANGED <<context, rpc, recs, request, nRequests, response, returned, path>>
    /\ UNCHANGED <<tables, calls, firstRecs>>
    /\ UNCHANGED boardVars
    /\ UNCHANGED sleeperVars
    /\ UNCHANGED homeVars

\* the try block up to the await: the candidates are built and create() is called
\* once; an exception before the call goes to the catch block
BuildRequest ==
    /\ pc = "called"
    /\ LET built == BuildCandidates(client, context, deterministicTop)
       IN  IF built.threw
           THEN LET s == Settle([threw |-> TRUE, value |-> <<>>], deterministicTop)
                IN  /\ pc' = s.settled
                    /\ returned' = s.value
                    /\ path' = s.via
                    /\ UNCHANGED <<request, nRequests>>
           ELSE /\ pc' = "ai-pending"
                /\ request' = built.list
                /\ nRequests' = nRequests + 1
                /\ UNCHANGED <<returned, path>>
    /\ UNCHANGED <<context, rpc, recs, client, deterministicTop, response>>
    /\ UNCHANGED <<tables, calls, firstRecs>>
    /\ UNCHANGED boardVars
    /\ UNCHANGED sleeperVars
    /\ UNCHANGED homeVars

\* the backend (or the SDK on its behalf) settles the pending call
BackendSettle ==
    /\ pc = "ai-pending"
    /\ response = NoResponse
    /\ response' \in BackendResponses(client, deterministicTop)
    /\ UNCHANGED <<context, rpc, recs, client, deterministicTop, pc, request,
                   nRequests, returned, path>>
    /\ UNCHANGED <<tables, calls, firstRecs>>
    /\ UNCHANGED boardVars
    /\ UNCHANGED sleeperVars
    /\ UNCHANGED homeVars

\* getRecommendations resumes after the await and settles its own promise
Resume ==
    /\ pc = "ai-pending"
    /\ response # NoResponse
    /\ LET s == Settle(AfterAwait(response, deterministicTop), deterministicTop)
       IN  /\ pc' = s.settled
           /\ returned' = s.value
           /\ path' = s.via
    /\ UNCHANGED <<context, rpc, recs, client, deterministicTop, request,
                   nRequests, response>>
    /\ UNCHANGED <<tables, calls, firstRecs>>
    /\ UNCHANGED boardVars
    /\ UNCHANGED sleeperVars
    /\ UNCHANGED homeVars

Init ==
    /\ context \in PipelineContexts
    /\ EngineInit
    /\ AdapterIdle
    /\ BoardIdle
    /\ SleeperIdle
    /\ HomeIdle

Next ==
    \/ RankCall
    \/ \E c \in Clients, from \in {1, 2} : Invoke(c, from)
    \/ BuildRequest
    \/ BackendSettle
    \/ Resume

Spec == Init /\ [][Next]_vars

\* Fairness of getRecommendations: a step of the adapter that is enabled (the
\* invocation, the synchronous code up to the await, the continuation after the
\* awaited call has settled) is run by the event loop.  Nothing in the adapter
\* obliges the awaited call to settle: create() is called without a timeout and
\* without an abort signal, so BackendSettle carries no fairness.
FairSpec ==
    /\ Spec
    /\ WF_vars(\E c \in Clients, from \in {1, 2} : Invoke(c, from))
    /\ WF_vars(BuildRequest)
    /\ WF_vars(Resume)

----------------------------------------------------------------------------
(* web/components/DraftBoard: the pick poll, the catalog load and the        *)
(* remaining pool computed by each render                                    *)

\* variant of RemainingOf: the catalog is shown without removing drafted players
RemainingOf_All(playerList, pickList) == playerList

\* draftedPlayerIds = new Set(picks.map(pick => pick.player_id));
\* remainingPlayers = players.filter(player => !draftedPlayerIds.has(player.player_id))
RemainingOf(playerList, pickList) ==
    LET draftedPlayerIds == {pickList[k].player_id : k \in 1..Len(pickList)}
    IN  SelectSeq(playerList, LAMBDA pl : pl.player_id \notin draftedPlayerIds)

\* pick logs the picks endpoint may answer with: the first m picks of one of two
\* drafts of catalog players
BoardPickLog(draft, m) ==
    [k \in 1..m |->
        [pick_no |-> k,
         roster_id |-> ((k - 1) % 2) + 1,
         player_id |-> "p" \o ToString(((k * (IF draft = 1 THEN 3 ELSE 5)) % 7) + 1)]]

BoardPickLogs == {BoardPickLog(draft, m) : draft \in {1, 2}, m \in 0..MaxBoardPicks}

\* catalogs the players endpoint may answer with
BoardCatalogs == {PoolOf(start, len) : start \in {1, 3}, len \in 0..MaxBoardPlayers}

\* draft.draft_order of the draft the board shows: user id -> draft slot
DraftOrder == ("u1" :> 1 @@ "u2" :> 2)

\* teamOnClock: the draft_order entry whose slot is the pick in the round
TeamOnClock(pickList) ==
    LET currentPick == Len(pickList) + 1
        pickInRound == ((currentPick - 1) % Cardinality(DOMAIN DraftOrder)) + 1
    IN  CHOOSE user \in DOMAIN DraftOrder : DraftOrder[user] = pickInRound

\* the llm_enabled flag /api/recommend answers request number n with
LlmOf(n) == n % 2 = 1

\* the dependency list of the recommendation effect
EffectDeps(pickList, playerList, strat) ==
    <<TeamOnClock(pickList), Len(RemainingOf(playerList, pickList)), strat>>

\* The render after a state change and the effect that follows it: the
\* remaining pool is recomputed; if a dependency of the effect changed and the
\* pool is not empty, fetchRecommendations starts (setIsLoading(true),
\* setError(null), the request is issued).  newError is the error state the
\* handler leaves.
Render(pickList, playerList, strat, newError) ==
    /\ remainingPlayers' = RemainingOf(playerList, pickList)
    /\ IF /\ EffectDeps(pickList, playerList, strat)
               # EffectDeps(boardPicks, boardPlayers, boardStrategy)
          /\ Len(RemainingOf(playerList, pickList)) > 0
       THEN /\ issued < MaxRequests
            /\ issued' = issued + 1
            /\ inFlight' = inFlight \cup {issued + 1}
            /\ isLoading' = TRUE
            /\ boardError' = "null"
       ELSE /\ boardError' = newError
            /\ UNCHANGED <<issued, inFlight, isLoading>>

\* fetchData: the picks response is ok; setPicks, then the component renders
PollPicks(log) ==
    /\ boardPicks' = log
    /\ Render(log, boardPlayers, boardStrategy, boardError)
    /\ UNCHANGED <<boardPlayers, boardStrategy, recommendations, llmEnabled>>
    /\ UNCHANGED <<context, rpc, recs, tables, calls, firstRecs>>
    /\ UNCHANGED adapterVars
    /\ UNCHANGED sleeperVars
    /\ UNCHANGED homeVars

\* fetchData: the fetch of the picks throws; setError, then the component renders
PollFails ==
    /\ Render(boardPicks, boardPlayers, boardStrategy, "Failed to load draft data")
    /\ UNCHANGED <<boardPicks, boardPlayers, boardStrategy, recommendations, llmEnabled>>
    /\ UNCHANGED <<context, rpc, recs, tables, calls, firstRecs>>
    /\ UNCHANGED adapterVars
    /\ UNCHANGED sleeperVars
    /\ UNCHANGED homeVars

\* fetchData: no players are loaded yet, loadPlayers succeeds; setPlayers, render
PollLoadsPlayers(catalog) ==
    /\ Len(boardPlayers) = 0
    /\ boardPlayers' = catalog
    /\ Render(boardPicks, catalog, boardStrategy, boardError)
    /\ UNCHANGED <<boardPicks, boardStrategy, recommendations, llmEnabled>>
    /\ UNCHANGED <<context, rpc, recs, tables, calls, firstRecs>>
    /\ UNCHANGED adapterVars
    /\ UNCHANGED sleeperVars
    /\ UNCHANGED homeVars

\* fetchData: no players are loaded yet and loadPlayers throws; setError, render
PollLoadFails ==
    /\ Len(boardPlayers) = 0
    /\ Render(boardPicks, boardPlayers, boardStrategy, "Failed to load player data")
    /\ UNCHANGED <<boardPicks, boardPlayers, boardStrategy, recommendations, llmEnabled>>
    /\ UNCHANGED <<context, rpc, recs, tables, calls, firstRecs>>
    /\ UNCHANGED adapterVars
    /\ UNCHANGED sleeperVars
    /\ UNCHANGED homeVars

\* handleSyncPlayers: the sync succeeded and loadPlayers replaces the catalog
SyncLoadsPlayers(catalog) ==
    /\ boardPlayers' = catalog
    /\ Render(boardPicks, catalog, boardStrategy, boardError)
    /\ UNCHANGED <<boardPicks, boardStrategy, recommendations, llmEnabled>>
    /\ UNCHANGED <<context, rpc, recs, tables, calls, firstRecs>>
    /\ UNCHANGED adapterVars
    /\ UNCHANGED sleeperVars
    /\ UNCHANGED homeVars

\* a click on a strategy button: setStrategy, render, effect
SetStrategy(strat) ==
    /\ strat # boardStrategy
    /\ boardStrategy' = strat
    /\ Render(boardPicks, boardPlayers, strat, boardError)
    /\ UNCHANGED <<boardPicks, boardPlayers, recommendations, llmEnabled>>
    /\ UNCHANGED <<context, rpc, recs, tables, calls, firstRecs>>
    /\ UNCHANGED adapterVars
    /\ UNCHANGED sleeperVars
    /\ UNCHANGED homeVars

\* a click on the refresh button (disabled while isLoading): fetchRecommendations
ClickRefresh ==
    /\ ~isLoading
    /\ issued < MaxRequests
    /\ issued' = issued + 1
    /\ inFlight' = inFlight \cup {issued + 1}
    /\ isLoading' = TRUE
    /\ boardError' = "null"
    /\ UNCHANGED <<boardPicks, boardPlayers, remainingPlayers, boardStrategy,
                   recommendations, llmEnabled>>
    /\ UNCHANGED <<context, rpc, recs, tables, calls, firstRecs>>
    /\ UNCHANGED adapterVars
    /\ UNCHANGED sleeperVars
    /\ UNCHANGED homeVars

\* fetchRecommendations after its await, response ok: setRecommendations,
\* setLlmEnabled, and setIsLoading(false) in the finally block
RecommendOk(n) ==
    /\ n \in inFlight
    /\ inFlight' = inFlight \ {n}
    /\ recommendations' = n
    /\ llmEnabled' = LlmOf(n)
    /\ isLoading' = FALSE
    /\ UNCHANGED <<boardPicks, boardPlayers, remainingPlayers, boardError,
                   boardStrategy, issued>>
    /\ UNCHANGED <<context, rpc, recs, tables, calls, firstRecs>>
    /\ UNCHANGED adapterVars
    /\ UNCHANGED sleeperVars
    /\ UNCHANGED homeVars

\* fetchRecommendations after its await, response not ok or fetch failed:
\* setError, and setIsLoading(false) in the finally block
RecommendFails(n) ==
    /\ n \in inFlight
    /\ inFlight' = inFlight \ {n}
    /\ boardError' = "Failed to fetch recommendations"
    /\ isLoading' = FALSE
    /\ UNCHANGED <<boardPicks, boardPlayers, remainingPlayers, boardStrategy,
                   recommendations, llmEnabled, issued>>
    /\ UNCHANGED <<context, rpc, recs, tables, calls, firstRecs>>
    /\ UNCHANGED adapterVars
    /\ UNCHANGED sleeperVars
    /\ UNCHANGED homeVars

InitBoard ==
    /\ context = ContextOf(1, 0, 0, <<"QB", "RB", "WR", "BN">>, 1, "balanced", 1)
    /\ EngineInit
    /\ AdapterIdle
    /\ BoardIdle
    /\ SleeperIdle
    /\ HomeIdle

NextBoard ==
    \/ \E log \in BoardPickLogs : PollPicks(log)
    \/ PollFails
    \/ \E catalog \in BoardCatalogs : PollLoadsPlayers(catalog)
    \/ PollLoadFails
    \/ \E catalog \in BoardCatalogs : SyncLoadsPlayers(catalog)
    \/ \E strat \in Strategies : SetStrategy(strat)
    \/ ClickRefresh
    \/ \E n \in 1..MaxRequests : RecommendOk(n)
    \/ \E n \in 1..MaxRequests : RecommendFails(n)

SpecBoard == InitBoard /\ [][NextBoard]_vars

----------------------------------------------------------------------------
(* SleeperClient: the cached get calls and transformPlayer *)

\* the JSON value null of a raw record
JsonNull == "(null)"

\* injury_status values of raw Sleeper player records
RawStatuses ==
    {"Questionable", "Doubtful", "Out", "IR", "Probable", "Suspended",
     "questionable", "healthy", JsonNull}

\* status.toLowerCase()
ToLowerCase(status) ==
    CASE status = "Questionable" -> "questionable"
      [] status = "Doubtful" -> "doubtful"
      [] status = "Out" -> "out"
      [] status = "IR" -> "ir"
      [] status = "Probable" -> "probable"
      [] status = "Suspended" -> "suspended"
      [] OTHER -> status

\* statusLower.includes(needle), for the lower-case raw statuses
Includes(statusLower, needle) ==
    <<statusLower, needle>> \in
        {<<"questionable", "questionable">>, <<"doubtful", "doubtful">>,
         <<"out", "out">>, <<"ir", "ir">>, <<"probable", "probable">>}

\* mapInjuryStatus(player.injury_status); an absent field is undefined
mapInjuryStatus(raw) ==
    IF ~Has(raw, "injury_status") \/ raw.injury_status = JsonNull THEN "healthy"
    ELSE LET statusLower == ToLowerCase(raw.injury_status)
         IN  IF Includes(statusLower, "out") \/ Includes(statusLower, "ir") THEN "out"
             ELSE IF Includes(statusLower, "doubtful") THEN "doubtful"
             ELSE IF Includes(statusLower, "questionable")
                     \/ Includes(statusLower, "probable") THEN "questionable"
             ELSE "healthy"

\* transformPlayer: the computed fields, then ...player, whose fields replace
\* the computed ones of the same name
transformPlayer(raw) ==
    raw
    @@ [player_id |-> raw.player_id,
        full_name |-> IF Has(raw, "full_name") THEN raw.full_name
                      ELSE IF Has(raw, "name") THEN raw.name ELSE "Unknown Player",
        pos |-> IF Has(raw, "position") THEN raw.position
                ELSE IF Has(raw, "pos") THEN raw.pos ELSE "UNK",
        projection_baseline |->
            IF Has(raw, "projection_baseline") /\ raw.projection_baseline # 0
            THEN raw.projection_baseline
            ELSE IF Has(raw, "fantasy_points_ppr") THEN raw.fantasy_points_ppr ELSE 0,
        injury_status |-> mapInjuryStatus(raw)]

\* raw records of /v1/players/nfl: one without injury_status and one per raw status
RawPlayer(i, status) ==
    [player_id |-> "s" \o ToString(i), position |-> "RB"]
    @@ Opt(i % 2 = 1, "full_name", "Sleeper " \o ToString(i))
    @@ Opt(i % 3 = 0, "fantasy_points_ppr", 100 + i)
    @@ Opt(status # "absent", "injury_status", status)

\* two answers of the endpoint: records without injury_status or with a status
\* already in lower case, and one record per raw status
RawPlayerLists ==
    {<<RawPlayer(1, "absent"), RawPlayer(2, "questionable"), RawPlayer(3, "healthy")>>,
     <<RawPlayer(1, "absent"), RawPlayer(2, "Questionable"), RawPlayer(3, "Doubtful"),
       RawPlayer(4, "Out"), RawPlayer(5, "IR"), RawPlayer(6, "Probable"),
       RawPlayer(7, "Suspended"), RawPlayer(8, JsonNull)>>}

\* the kinds of get call, the cache key each uses, and the ttl argument each
\* passes to setCache (picks pass this.cacheTtl)
CacheKinds == {"user", "drafts", "picks", "players", "rosters"}

CacheKey(kind) ==
    CASE kind = "user" -> "user:alice:2024"
      [] kind = "drafts" -> "drafts:L1"
      [] kind = "picks" -> "picks:D1"
      [] kind = "players" -> "players:nfl"
      [] kind = "rosters" -> "rosters:L1"

TtlArgument(kind) ==
    CASE kind = "user" -> 60000
      [] kind = "drafts" -> 300000
      [] kind = "picks" -> cacheTtl
      [] kind = "players" -> 86400000
      [] kind = "rosters" -> 300000

\* constructor argument cacheTtlSeconds: the default and a three-second setting
CacheTtlSeconds == {3000, 3}

\* clock advances, in ms
Advances == {4000, 61000, 301000}

\* getFromCache: Date.now() - cached.timestamp > this.cacheTtl
Expired(entry, ttl) == now - entry.timestamp > cacheTtl

\* setCache(key, data, ttl): the entry holds the data and Date.now()
setCache(c, key, data, ttl) ==
    [k \in (DOMAIN c) \cup {key} |->
        IF k = key THEN [data |-> data, timestamp |-> now] ELSE c[k]]

\* this.cache.delete(key)
CacheDelete(c, key) == [k \in (DOMAIN c) \ {key} |-> c[k]]

\* the entry a get call finds, its age, and whether getFromCache returns it
CacheHit(kind) ==
    /\ CacheKey(kind) \in DOMAIN cache
    /\ ~Expired(cache[CacheKey(kind)], TtlArgument(kind))

AgeOf(kind) ==
    IF CacheKey(kind) \in DOMAIN cache THEN now - cache[CacheKey(kind)].timestamp ELSE -1

\* discoverUser, getDrafts, getPicks, getPlayers, getRosters: the cached entry
\* is returned
GetHit(kind) ==
    /\ CacheHit(kind)
    /\ served' = [key |-> CacheKey(kind), outcome |-> "hit", age |-> AgeOf(kind),
                  data |-> cache[CacheKey(kind)].data]
    /\ nGets < MaxGets
    /\ nGets' = nGets + 1
    /\ UNCHANGED <<cacheTtl, cache, now, nAdvances>>
    /\ UNCHANGED <<context, rpc, recs, tables, calls, firstRecs>>
    /\ UNCHANGED adapterVars
    /\ UNCHANGED boardVars
    /\ UNCHANGED homeVars

\* the result a successful fetch is transformed into
FetchResult(kind, rawPlayers) ==
    IF kind = "players"
    THEN [players |-> [i \in 1..Len(rawPlayers) |-> transformPlayer(rawPlayers[i])]]
    ELSE [fetched |-> kind, at |-> now]

\* a get call that finds no entry or an expired one (which it deletes), fetches,
\* stores the result and returns it
GetMiss(kind, rawPlayers) ==
    /\ ~CacheHit(kind)
    /\ LET result == FetchResult(kind, rawPlayers)
       IN  /\ cache' = setCache(CacheDelete(cache, CacheKey(kind)), CacheKey(kind),
                                result, TtlArgument(kind))
           /\ served' = [key |-> CacheKey(kind), outcome |-> "miss", age |-> AgeOf(kind),
                         data |-> result]
    /\ nGets < MaxGets
    /\ nGets' = nGets + 1
    /\ UNCHANGED <<cacheTtl, now, nAdvances>>
    /\ UNCHANGED <<context, rpc, recs, tables, calls, firstRecs>>
    /\ UNCHANGED adapterVars
    /\ UNCHANGED boardVars
    /\ UNCHANGED homeVars

\* a get call that misses and whose fetch fails: the call throws, nothing is stored
GetFails(kind) ==
    /\ ~CacheHit(kind)
    /\ cache' = CacheDelete(cache, CacheKey(kind))
    /\ served' = [key |-> CacheKey(kind), outcome |-> "error", age |-> AgeOf(kind)]
    /\ nGets < MaxGets
    /\ nGets' = nGets + 1
    /\ UNCHANGED <<cacheTtl, now, nAdvances>>
    /\ UNCHANGED <<context, rpc, recs, tables, calls, firstRecs>>
    /\ UNCHANGED adapterVars
    /\ UNCHANGED boardVars
    /\ UNCHANGED homeVars

\* time passes
Advance(ms) ==
    /\ nAdvances < MaxAdvances
    /\ now' = now + ms
    /\ nAdvances' = nAdvances + 1
    /\ UNCHANGED <<cacheTtl, cache, served, nGets>>
    /\ UNCHANGED <<context, rpc, recs, tables, calls, firstRecs>>
    /\ UNCHANGED adapterVars
    /\ UNCHANGED boardVars
    /\ UNCHANGED homeVars

\* new SleeperClient(cacheTtlSeconds)
InitSleeper ==
    /\ context = ContextOf(1, 0, 0, <<"QB", "RB", "WR", "BN">>, 1, "balanced", 1)
    /\ EngineInit
    /\ AdapterIdle
    /\ BoardIdle
    /\ HomeIdle
    /\ cacheTtl \in {seconds * 1000 : seconds \in CacheTtlSeconds}
    /\ cache = [k \in {} |-> 0]
    /\ now = 0
    /\ served = NoServe
    /\ nAdvances = 0
    /\ nGets = 0

NextSleeper ==
    \/ \E kind \in CacheKinds : GetHit(kind)
    \/ \E kind \in CacheKinds, rawPlayers \in RawPlayerLists :
        /\ (kind # "players" => rawPlayers = CHOOSE l \in RawPlayerLists : Len(l) = 3)
        /\ GetMiss(kind, rawPlayers)
    \/ \E kind \in CacheKinds : GetFails(kind)
    \/ \E ms \in Advances : Advance(ms)

SpecSleeper == InitSleeper /\ [][NextSleeper]_vars

----------------------------------------------------------------------------
(* web/app/page.tsx (Home) and web/components/LeagueSelector *)

Leagues == {"L1", "L2"}

\* the drafts /api/drafts answers with for a league
DraftsOf(leagueId) ==
    IF leagueId = "L1"
    THEN <<[draft_id |-> "D1", league_id |-> "L1"], [draft_id |-> "D2", league_id |-> "L1"]>>
    ELSE <<[draft_id |-> "D3", league_id |-> leagueId]>>

\* toggleLeague(leagueId) up to its await: collapse the league if it is the
\* expanded one; otherwise expand it and, if its drafts are not loaded, mark it
\* loading and start the fetch
ToggleLeague(leagueId) ==
    IF expandedLeague = leagueId
    THEN /\ expandedLeague' = "null"
         /\ UNCHANGED <<drafts, loadingDrafts, draftFetches>>
    ELSE /\ expandedLeague' = leagueId
         /\ IF leagueId \notin DOMAIN drafts
            THEN /\ loadingDrafts' = leagueId
                 /\ draftFetches' = draftFetches \cup {leagueId}
            ELSE UNCHANGED <<loadingDrafts, draftFetches>>
         /\ UNCHANGED drafts

\* a click on a league header: LeagueSelector.handleLeagueSelect calls
\* Home.handleLeagueSelect, then toggleLeague if the league's drafts are not loaded
ClickLeague(leagueId) ==
    /\ selectedLeague' = leagueId
    /\ selectedDraft' = NoDraft
    /\ IF leagueId \notin DOMAIN drafts
       THEN ToggleLeague(leagueId)
       ELSE UNCHANGED <<expandedLeague, drafts, loadingDrafts, draftFetches>>
    /\ UNCHANGED <<context, rpc, recs, tables, calls, firstRecs>>
    /\ UNCHANGED adapterVars
    /\ UNCHANGED boardVars
    /\ UNCHANGED sleeperVars

\* a click on a league's chevron button: toggleLeague only (stopPropagation)
ClickChevron(leagueId) ==
    /\ ToggleLeague(leagueId)
    /\ UNCHANGED <<selectedLeague, selectedDraft>>
    /\ UNCHANGED <<context, rpc, recs, tables, calls, firstRecs>>
    /\ UNCHANGED adapterVars
    /\ UNCHANGED boardVars
    /\ UNCHANGED sleeperVars

\* toggleLeague after its await, response ok: setDrafts, then setLoadingDrafts(null)
DraftsArrive(leagueId) ==
    /\ leagueId \in draftFetches
    /\ draftFetches' = draftFetches \ {leagueId}
    /\ drafts' = [l \in (DOMAIN drafts) \cup {leagueId} |->
                     IF l = leagueId THEN DraftsOf(leagueId) ELSE drafts[l]]
    /\ loadingDrafts' = "null"
    /\ UNCHANGED <<selectedLeague, selectedDraft, expandedLeague>>
    /\ UNCHANGED <<context, rpc, recs, tables, calls, firstRecs>>
    /\ UNCHANGED adapterVars
    /\ UNCHANGED boardVars
    /\ UNCHANGED sleeperVars

\* toggleLeague after its await, response not ok or fetch failed:
\* setLoadingDrafts(null) only
DraftsFail(leagueId) ==
    /\ leagueId \in draftFetches
    /\ draftFetches' = draftFetches \ {leagueId}
    /\ loadingDrafts' = "null"
    /\ UNCHANGED <<selectedLeague, selectedDraft, expandedLeague, drafts>>
    /\ UNCHANGED <<context, rpc, recs, tables, calls, firstRecs>>
    /\ UNCHANGED adapterVars
    /\ UNCHANGED boardVars
    /\ UNCHANGED sleeperVars

\* a click on a draft row: the row is rendered for the expanded league when it
\* is not loading; onDraftSelect is Home.handleDraftSelect
ClickDraft(draft) ==
    /\ expandedLeague \in DOMAIN drafts
    /\ loadingDrafts # expandedLeague
    /\ draft \in SeqRange(drafts[expandedLeague])
    /\ selectedDraft' = draft
    /\ UNCHANGED <<selectedLeague, expandedLeague, drafts, loadingDrafts, draftFetches>>
    /\ UNCHANGED <<context, rpc, recs, tables, calls, firstRecs>>
    /\ UNCHANGED adapterVars
    /\ UNCHANGED boardVars
    /\ UNCHANGED sleeperVars

InitHome ==
    /\ context = ContextOf(1, 0, 0, <<"QB", "RB", "WR", "BN">>, 1, "balanced", 1)
    /\ EngineInit
    /\ AdapterIdle
    /\ BoardIdle
    /\ SleeperIdle
    /\ HomeIdle

NextHome ==
    \/ \E leagueId \in Leagues : ClickLeague(leagueId)
    \/ \E leagueId \in Leagues : ClickChevron(leagueId)
    \/ \E leagueId \in Leagues : DraftsArrive(leagueId)
    \/ \E leagueId \in Leagues : DraftsFail(leagueId)
    \/ \E leagueId \in Leagues : \E draft \in SeqRange(DraftsOf(leagueId)) : ClickDraft(draft)

SpecHome == InitHome /\ [][NextHome]_vars

----------------------------------------------------------------------------
(* Claims about getRecommendations, checked under Spec (C6 under FairSpec) *)

Resolved == pc = "ai-resolved"

\* the backend call did not succeed: it rejected, or it was never reached
CallFailed == response.kind \in {"none", "error"}

\* C1: when the backend call fails, getRecommendations returns exactly the first
\* min(8, n) entries of the deterministic list, in the same order, each with the
\* deterministic player_id, reason and fit, and with the deterministic
\* edge_vs_next except for the first entry, whose edge_vs_next is 0.
C1_FallbackOnFailure ==
    (Resolved /\ CallFailed) =>
        /\ Len(returned) = Min(8, Len(deterministicTop))
        /\ \A i \in 1..Len(returned) :
              returned[i] =
                  [player_id |-> deterministicTop[i].player_id,
                   reason |-> deterministicTop[i].reason,
                   fit |-> deterministicTop[i].fit,
                   edge_vs_next |-> IF i = 1 THEN 0 ELSE deterministicTop[i].edge_vs_next]

\* a failed call on more than 8 candidates whose first entry had a non-zero edge
C1_Witness ==
    /\ Resolved
    /\ response.kind = "error"
    /\ Len(deterministicTop) > 8
    /\ deterministicTop[1].edge_vs_next # 0
    /\ Len(returned) = 8
    /\ returned[1].edge_vs_next = 0

\* C2: a backend answer with fewer entries than min(n, 8) makes getRecommendations
\* fall back to the deterministic ordering with the deterministic reasons.
C2_FewerEntriesFallsBack ==
    (/\ Resolved
     /\ response.kind = "ranked"
     /\ Len(response.ranked) < Min(Len(deterministicTop), 8))
        => (path = "fallback" /\ returned = FallbackList(deterministicTop))

\* the data contract of one returned entry
WellFormedEntry(e) ==
    /\ {"player_id", "reason", "fit", "edge_vs_next"} \subseteq DOMAIN e
    /\ Len(e.reason) <= 140
    /\ e.fit \in {"value", "need", "stack", "upside", "safe"}
    /\ e.edge_vs_next \in Int

\* C3: every entry of the list getRecommendations returns has a player_id, a
\* reason of at most 140 characters, a fit of the enumeration and a numeric
\* edge_vs_next, for every backend response.
C3_DataContract ==
    Resolved => \A i \in 1..Len(returned) : WellFormedEntry(returned[i])

\* C4: getRecommendations never rejects: whatever the backend does (network
\* error, no tool call, unparsable arguments, wrong structure), once the
\* invocation has settled its promise is resolved with a list.
C4_NeverRejects ==
    /\ pc # "rejected"
    /\ Resolved => (path \in {"ai", "fallback"} /\ DOMAIN returned = 1..Len(returned))

\* a TypeError raised inside the try block (parsed value null) ended in a resolved promise
C4_Witness ==
    /\ Resolved
    /\ response.kind = "null"
    /\ path = "fallback"
    /\ Len(returned) > 0

\* C5: what the caller receives tells it whether AI enrichment was applied: an
\* invocation that returned the backend's list never hands over the value that a
\* fallback invocation hands over for the same arguments.
C5_FlagSeparates ==
    ~(Resolved /\ path = "ai" /\ returned = FallbackList(deterministicTop))

\* C6: every invocation that has issued a request eventually resolves.
C6_PendingLeadsToResolved == (pc = "ai-pending") ~> Resolved

\* C7: for a non-empty deterministic list, a resolved invocation has issued
\* exactly one request to the backend.
C7_ExactlyOneRequest ==
    (Resolved /\ Len(deterministicTop) > 0) => nRequests = 1

\* C8: the request sent to the backend carries at most 8 candidates.
C8_AtMostEightCandidates == Len(request) <= 8

\* C9: the returned list is a reordering of the supplied candidates: every
\* player_id in it belongs to a supplied candidate and none occurs twice.
C9_ReorderingOfCandidates ==
    Resolved =>
        /\ \A i \in 1..Len(returned) :
              \E j \in 1..Len(deterministicTop) :
                  returned[i].player_id = deterministicTop[j].player_id
        /\ \A i, j \in 1..Len(returned) :
              i # j => returned[i].player_id # returned[j].player_id

----------------------------------------------------------------------------
(* Claims about rankCandidates, checked under SpecRank *)

\* C10: the list rankCandidates returns has at most 12 entries and at most as
\* many entries as the remaining pool; for an empty pool the call returns the
\* empty list and raises no error.
C10_LengthBound ==
    /\ rpc = "returned" =>
          /\ Len(recs) <= 12
          /\ Len(recs) <= Len(context.remaining)
    /\ (context.remaining = <<>> /\ rpc # "ready") =>
          (rpc = "returned" /\ recs = <<>>)

\* a pool larger than 12 was ranked and cut to 12
C10_Witness ==
    /\ rpc = "returned"
    /\ Len(context.remaining) > 12
    /\ Len(recs) = 12

\* C11: every entry of the list rankCandidates returns has edge_vs_next >= 0.
C11_EdgeNonNegative ==
    rpc = "returned" => \A i \in 1..Len(recs) : recs[i].edge_vs_next >= 0

IndexInPool(id) ==
    CHOOSE j \in 1..Len(context.remaining) : context.remaining[j].player_id = id

\* the score the engine gives the j-th player of context.remaining
PoolScore(j) ==
    ScoreOne(context.remaining[j], context, STRATEGY_WEIGHTS[context.strategy],
             calculateTeamNeeds(context.picks, context.roster_positions,
                                context.team_on_clock),
             calculatePositionalScarcity(context.remaining)).score

\* the entry of score s1 from pool position j1 precedes, in the full ordering,
\* the entry of score s2 from pool position j2
Precedes(s1, j1, s2, j2) == s1 > s2 \/ (s1 = s2 /\ j1 < j2)

\* C13: the returned list is sorted by score descending, candidates of equal
\* score keep the order they had in context.remaining, and the list is the
\* first 12 entries of that ordering of the whole pool.
C13_StableSortedTopTwelve ==
    rpc = "returned" =>
        /\ Len(recs) = Min(12, Len(context.remaining))
        /\ \A i \in 1..Len(recs) :
              recs[i].score = PoolScore(IndexInPool(recs[i].player_id))
        /\ \A i, k \in 1..Len(recs) :
              i < k => Precedes(recs[i].score, IndexInPool(recs[i].player_id),
                                recs[k].score, IndexInPool(recs[k].player_id))
        /\ \A j \in 1..Len(context.remaining) :
              (\A i \in 1..Len(recs) : recs[i].player_id # context.remaining[j].player_id)
                  => \A i \in 1..Len(recs) :
                        Precedes(recs[i].score, IndexInPool(recs[i].player_id),
                                 PoolScore(j), j)

\* a pool of more than 12 players was ranked and two neighbours of the
\* returned list have the same score
C13_Witness ==
    /\ rpc = "returned"
    /\ Len(context.remaining) > 12
    /\ \E i \in 1..(Len(recs) - 1) : recs[i].score = recs[i + 1].score

C16_OnlyRemainingPlayers ==
    rpc = "returned" =>
        \A i \in 1..Len(recs) :
            Cardinality({k \in 1..Len(recs) : recs[k].player_id = recs[i].player_id})
              <= Cardinality({j \in 1..Len(context.remaining) :
                                context.remaining[j].player_id = recs[i].player_id})

\* every player of a non-empty pool of at most 12 players was returned once
C16_Witness ==
    /\ rpc = "returned"
    /\ Len(recs) >= 3
    /\ Len(recs) = Len(context.remaining)

----------------------------------------------------------------------------
(* Claims about the draft board, checked under SpecBoard *)

\* C17: after any sequence of pick polls and catalog loads, the remaining pool
\* is exactly the catalog players whose player_id is not the player_id of a pick
\* of the current pick log; it never contains a drafted player.
C17_RemainingExcludesDrafted ==
    LET drafted(pl) == \E k \in 1..Len(boardPicks) : boardPicks[k].player_id = pl.player_id
    IN  /\ SeqRange(remainingPlayers) = {pl \in SeqRange(boardPlayers) : ~drafted(pl)}
        /\ \A i \in 1..Len(remainingPlayers) : ~drafted(remainingPlayers[i])

\* a catalog is loaded, picks were polled, some catalog players are drafted and
\* some are not
C17_Witness ==
    /\ Len(boardPicks) >= 2
    /\ Len(remainingPlayers) >= 1
    /\ Len(remainingPlayers) < Len(boardPlayers)

----------------------------------------------------------------------------
(* Claims about the need and bye sub-scores, checked under SpecRank, and about *)
(* invalid contexts, checked under SpecRankInvalid                             *)

\* C18: for every startable position label of the roster template (not BN, not
\* IR), the need calculateTeamNeeds computes is max(0, slots with that label
\* minus the on-clock roster's picks whose drafted player has that position).
C18_NeedFromActualPositions ==
    rpc = "returned" =>
        LET needs == calculateTeamNeeds(context.picks, context.roster_positions,
                                        context.team_on_clock)
            filled(pos) ==
                Cardinality({k \in 1..Len(context.picks) :
                    /\ context.picks[k].roster_id = context.team_on_clock
                    /\ DraftedPlayerOf(context.picks[k]).pos = pos})
        IN  \A i \in 1..Len(context.roster_positions) :
                LET pos == context.roster_positions[i]
                IN  pos \notin {"BN", "IR"} =>
                        /\ pos \in DOMAIN needs
                        /\ needs[pos] = Max(0, Required(context.roster_positions, pos)
                                               - filled(pos))

\* C19: the bye penalty of a candidate with a bye week is 0, 10 or 20 for at most
\* one, exactly two, three or more players drafted by the on-clock roster with
\* the candidate's bye week; picks with another bye week do not raise it.
C19_ByePenaltyFromSameByeWeek ==
    rpc = "returned" =>
        \A i \in 1..Len(recs) :
            LET player == context.remaining[IndexInPool(recs[i].player_id)]
                sameBye == Cardinality({k \in 1..Len(context.picks) :
                    /\ context.picks[k].roster_id = context.team_on_clock
                    /\ DraftedPlayerOf(context.picks[k]).bye_week = player.bye_week})
            IN  Has(player, "bye_week") =>
                    recs[i].bye_penalty = (IF sameBye >= 3 THEN 20 * SubScale
                                           ELSE IF sameBye = 2 THEN 10 * SubScale
                                           ELSE 0)

\* C20: for a context with a strategy outside safe, balanced and upside,
\* rankCandidates raises an error and never returns a ranking, the empty pool
\* included.
C20_InvalidContextRaises ==
    (context.strategy \notin Strategies /\ rpc # "ready") => rpc = "threw"

----------------------------------------------------------------------------
(* Claims about the score and its terms *)

SubScoreFields ==
    {"vorp", "adp_discount", "need_boost", "scarcity_boost", "bye_penalty",
     "injury_penalty", "upside_bonus"}

\* C21: every Recommendation rankCandidates returns carries all seven sub-scores,
\* and its score is w1*vorp + w2*adp_discount + w3*need_boost + w4*scarcity_boost
\* - w5*bye_penalty - w6*injury_penalty + w7*upside_bonus of those returned
\* sub-scores, with the weight vector of context.strategy.
C21_ScoreFromReturnedSubScores ==
    rpc = "returned" =>
        \A i \in 1..Len(recs) :
            LET rec == recs[i]
                w == ModuleTables.STRATEGY_WEIGHTS[context.strategy]
            IN  /\ SubScoreFields \subseteq DOMAIN rec
                /\ rec.score = w.w1 * rec.vorp + w.w2 * rec.adp_discount
                               + w.w3 * rec.need_boost + w.w4 * rec.scarcity_boost
                               - w.w5 * rec.bye_penalty - w.w6 * rec.injury_penalty
                               + w.w7 * rec.upside_bonus

\* a returned entry whose penalties and bonuses are all non-zero
C21_Witness ==
    /\ rpc = "returned"
    /\ \E i \in 1..Len(recs) :
        /\ recs[i].bye_penalty > 0 /\ recs[i].injury_penalty > 0
        /\ recs[i].vorp > 0 /\ recs[i].adp_discount > 0 /\ recs[i].need_boost > 0
        /\ recs[i].upside_bonus > 0

\* the player of the pool a returned entry was scored from
PoolPlayer(rec) ==
    CHOOSE pl \in SeqRange(context.remaining) : pl.player_id = rec.player_id

C23_ThreeBacksScenario ==
    rpc = "returned" =>
        /\ Len(recs) = 3
        /\ \A i \in 1..3 :
            recs[i].vorp =
                (CASE PoolPlayer(recs[i]).projection_baseline = 200 -> 50 * SubScale
                   [] PoolPlayer(recs[i]).projection_baseline = 180 -> 30 * SubScale
                   [] PoolPlayer(recs[i]).projection_baseline = 150 -> 0)
        /\ PoolPlayer(recs[1]).projection_baseline = 200

\* the pool listed the baseline-200 candidate last and the call ranked it first
C23_Witness ==
    /\ rpc = "returned"
    /\ context.remaining[3].projection_baseline = 200
    /\ recs[1].player_id = "rb200"
    /\ recs[1].vorp = 50 * SubScale

\* the entries of the same context ranked under the upside strategy
UnderUpside == rankCandidates([context EXCEPT !.strategy = "upside"]).list

\* two entries that differ only in need boost and upside bonus, the first being
\* the upside-heavy one and the second the need-heavy one
UpsideVersusNeed(heavy, needy) ==
    /\ heavy.vorp = needy.vorp
    /\ heavy.adp_discount = needy.adp_discount
    /\ heavy.scarcity_boost = needy.scarcity_boost
    /\ heavy.bye_penalty = needy.bye_penalty
    /\ heavy.injury_penalty = needy.injury_penalty
    /\ heavy.upside_bonus >= needy.upside_bonus
    /\ heavy.need_boost <= needy.need_boost

\* C24: switching the strategy from safe to upside never decreases the weight w7
\* on the upside bonus and never increases the weight w3 on the need boost; so
\* for two candidates of one context that differ only in need boost and upside
\* bonus, score(upside-heavy) minus score(need-heavy) under upside is at least
\* that difference under safe.
C24_UpsideFavoursUpsideBonus ==
    /\ STRATEGY_WEIGHTS.upside.w7 >= STRATEGY_WEIGHTS.safe.w7
    /\ STRATEGY_WEIGHTS.upside.w3 <= STRATEGY_WEIGHTS.safe.w3
    /\ (rpc = "returned" /\ context.strategy = "safe") =>
        \A i, j \in 1..Len(recs) :
            UpsideVersusNeed(recs[i], recs[j]) =>
                \A k, l \in 1..Len(UnderUpside) :
                    ( /\ UnderUpside[k].player_id = recs[i].player_id
                      /\ UnderUpside[l].player_id = recs[j].player_id )
                    => UnderUpside[k].score - UnderUpside[l].score
                           >= recs[i].score - recs[j].score

\* a pair with strictly more upside bonus on one side and strictly more need
\* boost on the other, whose score difference strictly grows under upside
C24_Witness ==
    /\ rpc = "returned" /\ context.strategy = "safe"
    /\ \E i, j \in 1..Len(recs) :
        /\ UpsideVersusNeed(recs[i], recs[j])
        /\ recs[i].upside_bonus > recs[j].upside_bonus
        /\ recs[i].need_boost < recs[j].need_boost
        /\ \E k, l \in 1..Len(UnderUpside) :
            /\ UnderUpside[k].player_id = recs[i].player_id
            /\ UnderUpside[l].player_id = recs[j].player_id
            /\ UnderUpside[k].score - UnderUpside[l].score > recs[i].score - recs[j].score

\* C25: the fit label is chosen by strict priority: need when need_boost > 0.8;
\* otherwise upside when upside_bonus > 15; otherwise safe when the strategy is
\* safe; otherwise value.  So rankCandidates never emits stack, and never emits
\* value under the safe strategy.
C25_FitByPriority ==
    rpc = "returned" =>
        \A i \in 1..Len(recs) :
            /\ recs[i].fit =
                (IF 10 * recs[i].need_boost > 8 * SubScale THEN "need"
                 ELSE IF recs[i].upside_bonus > 15 * SubScale THEN "upside"
                 ELSE IF context.strategy = "safe" THEN "safe"
                 ELSE "value")
            /\ recs[i].fit # "stack"
            /\ context.strategy = "safe" => recs[i].fit # "value"

\* one list shows the priority and the threshold: an entry labelled need whose
\* upside bonus is above 15, and an entry with need boost exactly 0.8 that is
\* not labelled need
C25_Witness ==
    /\ rpc = "returned"
    /\ \E i, j \in 1..Len(recs) :
        /\ recs[i].fit = "need" /\ recs[i].upside_bonus > 15 * SubScale
        /\ 10 * recs[j].need_boost = 8 * SubScale /\ recs[j].fit # "need"

\* the scarcity of every position with 1 to 100 players in the pool is 1.0
ClampedAtOne(pool) ==
    LET scarcity == calculatePositionalScarcity(pool)
    IN  \A pos \in {pool[i].pos : i \in 1..Len(pool)} :
            CountOf(pool, pos) \in 1..100 =>
                /\ pos \in DOMAIN scarcity
                /\ scarcity[pos] = SubScale

----------------------------------------------------------------------------
(* Claims about the Sleeper client, checked under SpecSleeper *)

InjuryStatuses == {"healthy", "questionable", "doubtful", "out"}

\* C27: every Player SleeperClient produces from a raw record has injury_status
\* in healthy, questionable, doubtful, out: the value mapInjuryStatus normalised,
\* also when the raw record has its own injury_status field.
C27_InjuryStatusNormalised ==
    (served.key = CacheKey("players") /\ served.outcome \in {"hit", "miss"}) =>
        \A i \in 1..Len(served.data.players) :
            served.data.players[i].injury_status \in InjuryStatuses

\* the lifetime the claim gives an entry of each kind, in ms
Lifetime(key) ==
    CASE key = CacheKey("user") -> 60000
      [] key = CacheKey("drafts") -> 300000
      [] key = CacheKey("rosters") -> 300000
      [] key = CacheKey("players") -> 86400000
      [] key = CacheKey("picks") -> cacheTtl

\* C28: a cache entry is served for exactly the lifetime given when it was
\* stored (user 1 minute, drafts and rosters 5 minutes, players 24 hours, picks
\* the configured pick TTL): a read of an entry younger than its lifetime hits,
\* a read of an entry older than its lifetime misses and refetches.
C28_EntryLivesItsOwnTtl ==
    (served.outcome # "none" /\ served.age >= 0) =>
        /\ served.age < Lifetime(served.key) => served.outcome = "hit"
        /\ served.age > Lifetime(served.key) => served.outcome # "hit"

----------------------------------------------------------------------------
(* Claims about the Home page, checked under SpecHome *)

\* C29: after any sequence of league selections, expand/collapse toggles and
\* draft clicks, whenever a draft is selected (DraftBoard is rendered) the
\* selected league is non-null and is the league the draft belongs to.
C29_SelectedDraftBelongsToSelectedLeague ==
    selectedDraft # NoDraft =>
        /\ selectedLeague # "null"
        /\ selectedLeague = selectedDraft.league_id

----------------------------------------------------------------------------
(* Claim about overlapping recommendation requests, checked under SpecBoard *)

\* C30: when recommendation requests overlap, once all requests have resolved
\* the displayed recommendations and the llmEnabled flag are those of the most
\* recently issued request, for every order in which the responses arrive.  (No
\* error is shown, so the most recent request did not fail.)
C30_LatestRequestShown ==
    (issued >= 2 /\ inFlight = {} /\ boardError = "null") =>
        /\ recommendations = issued
        /\ llmEnabled = LlmOf(issued)

====
